---------------------------- MODULE Spec2Model ----------------------------
(***************************************************************************)
(* Model of the region-info deploy-time lookup of @aws-cdk/core            *)
(* (deployTimeLookup, ucfirst, tokenizedMap, replaceAll).                  *)
(*                                                                         *)
(* A JavaScript string is a sequence of one-character strings, so that     *)
(* substr, split, join, includes and the regular-expression replace are    *)
(* computed character by character.  A stack is the sequence of its child  *)
(* constructs; a CfnMapping child carries its two-level mapping as a       *)
(* function from <<key1, key2>> to the value.                              *)
(***************************************************************************)
EXTENDS Integers, Sequences, FiniteSets, TLC

VARIABLES stack, calls, last, procs, locks,
          heap, stackAccount, roleLast, roleCalls

\* The variables of the concurrent calls: the position and the locals of
\* each, and the table identities whose critical section is taken.
procVars == <<procs, locks>>

\* The variables of the IAM roles: the constructs of role.ts and of its
\* collaborators by reference (their index in heap), the account of the
\* stack they live in, the last operation on a role with its result, and
\* the number of operations made.
roleVars == <<heap, stackAccount, roleLast, roleCalls>>

vars == <<stack, calls, last, procs, locks, heap, stackAccount, roleLast, roleCalls>>

(***************************************************************************)
(* Bounds of the model.                                                    *)
(***************************************************************************)
\* Number of deployTimeLookup calls made against the one stack.
MaxCalls == 2

\* Number of operations made on the roles of the one stack.
MaxRoleCalls == 3

\* Number of deployTimeLookup calls that run concurrently.
NumProcs == 2

(***************************************************************************)
(* Characters and JavaScript string built-ins.                             *)
(***************************************************************************)
LowerCase ==
    <<"a","b","c","d","e","f","g","h","i","j","k","l","m",
      "n","o","p","q","r","s","t","u","v","w","x","y","z">>

UpperCase ==
    <<"A","B","C","D","E","F","G","H","I","J","K","L","M",
      "N","O","P","Q","R","S","T","U","V","W","X","Y","Z">>

Digits == {"0","1","2","3","4","5","6","7","8","9"}

Range(s) == { s[i] : i \in DOMAIN s }

\* The character class [a-zA-Z0-9] of the regular expression on line 34.
AlphaNumeric == Range(LowerCase) \cup Range(UpperCase) \cup Digits

\* String.prototype.toUpperCase on one character.
toUpperCase(c) ==
    IF c \in Range(LowerCase)
    THEN UpperCase[CHOOSE i \in DOMAIN LowerCase : LowerCase[i] = c]
    ELSE c

\* String.prototype.substr(start, length) with a 0-based start.
substr(x, start, length) ==
    SubSeq(x, start + 1, IF start + length > Len(x) THEN Len(x) ELSE start + length)

\* String.prototype.includes.
includes(x, pat) ==
    \E i \in 1..(Len(x) - Len(pat) + 1) : SubSeq(x, i, i + Len(pat) - 1) = pat

RECURSIVE splitFrom(_, _, _, _)
\* The pieces of x from position start on, scanning for pat from position i.
splitFrom(x, pat, i, start) ==
    IF i + Len(pat) - 1 > Len(x)
    THEN << SubSeq(x, start, Len(x)) >>
    ELSE IF SubSeq(x, i, i + Len(pat) - 1) = pat
         THEN << SubSeq(x, start, i - 1) >>
              \o splitFrom(x, pat, i + Len(pat), i + Len(pat))
         ELSE splitFrom(x, pat, i + 1, start)

\* String.prototype.split with a string separator: the empty separator
\* splits into the characters, any other one at its non-overlapping
\* occurrences from the left.
split(x, pat) ==
    IF pat = <<>>
    THEN [i \in 1..Len(x) |-> << x[i] >>]
    ELSE splitFrom(x, pat, 1, 1)

RECURSIVE join(_, _)
\* Array.prototype.join.
join(parts, sep) ==
    IF Len(parts) = 0 THEN <<>>
    ELSE IF Len(parts) = 1 THEN parts[1]
    ELSE parts[1] \o sep \o join(Tail(parts), sep)

\* x.replace(/[^a-zA-Z0-9]/g, '_')
replaceNonAlphaNumeric(x) ==
    [i \in 1..Len(x) |-> IF x[i] \in AlphaNumeric THEN x[i] ELSE "_"]

(***************************************************************************)
(* Collaborators of deployTimeLookup that live outside the three files:    *)
(* the pseudo parameters, the fact registry, the construct tree and        *)
(* CfnMapping.                                                             *)
(***************************************************************************)
\* Aws.REGION: the token standing for the region of the deployment.
Aws_REGION == <<"$", "R">>

\* Aws.URL_SUFFIX: the token standing for the domain suffix of the deployment.
Aws_URL_SUFFIX == <<"$", "S">>

\* cxapi.TARGET_PARTITIONS: the name of the context value.
TARGET_PARTITIONS == "@aws-cdk/core:target-partitions"

\* The "no value" of an optional string.
undefined == [defined |-> FALSE, str |-> <<>>]

Some(s) == [defined |-> TRUE, str |-> s]

\* The regions the lookup maps are keyed by.
Regions == { <<"a">>, <<"b">>, <<"c">> }

\* RegionInfo.get(region).domainSuffix: regions a, b and S have the domain
\* suffix "x" registered, region d the suffix "dx" (its own code occurs in
\* it), region e the empty string; region c and every other key, the empty
\* key among them, have none.
domainSuffix(region) ==
    IF region \in { <<"a">>, <<"b">>, <<"S">> } THEN Some(<<"x">>)
    ELSE IF region = <<"d">> THEN Some(<<"d","x">>)
    ELSE IF region = <<"e">> THEN Some(<<>>)
    ELSE undefined

\* stack.node.tryFindChild(id): the index of the child with that id, 0 for
\* undefined.
tryFindChild(children, id) ==
    IF \E i \in DOMAIN children : children[i].id = id
    THEN CHOOSE i \in DOMAIN children :
            /\ children[i].id = id
            /\ \A j \in DOMAIN children : children[j].id = id => i <= j
    ELSE 0

\* new CfnMapping(stack, id): the stack with a new, empty mapping as its
\* last child.
NewCfnMapping(children, id) ==
    Append(children, [id |-> id, kind |-> "CfnMapping", mapping |-> <<>>])

\* CfnMapping.setValue(key1, key2, value).
setValue(child, key1, key2, value) ==
    [child EXCEPT !.mapping =
        [p \in (DOMAIN child.mapping) \cup { <<key1, key2>> } |->
            IF p = <<key1, key2>> THEN value ELSE child.mapping[p]]]

\* CfnMapping.findInMap(key1, key2): the deferred { Fn::FindInMap }.
findInMap(child, key1, key2) ==
    [kind |-> "FindInMap", str |-> <<>>, map |-> child.id, key1 |-> key1, key2 |-> key2]

\* A string as a returned value.
StringValue(s) ==
    [kind |-> "string", str |-> s, map |-> <<>>, key1 |-> <<>>, key2 |-> <<>>]

\* What a call that threw returned.
NoValue ==
    [kind |-> "none", str |-> <<>>, map |-> <<>>, key1 |-> <<>>, key2 |-> <<>>]

NoError == [name |-> "none", head |-> "", fact |-> <<>>, use |-> "", context |-> ""]

\* Whether a child has a setValue and a findInMap method to call.  A
\* construct of another class has none; a mapping of another class (or of
\* another copy of the library) has both.
hasMappingMethods(child) == child.kind \in { "CfnMapping", "ForeignMapping" }

(***************************************************************************)
(* src/unnamed/part_000                                                    *)
(***************************************************************************)
\* function replaceAll(x, pat, replacement)
replaceAll(x, pat, replacement) == join(split(x, pat), replacement)

\* The body of the loop of tokenizedMap for one entry.
tokenizedValue(region, value) ==
    LET info == domainSuffix(region)
        t1   == IF info.defined /\ info.str # <<>>
                THEN replaceAll(value, info.str, Aws_URL_SUFFIX)
                ELSE value
    IN  replaceAll(t1, region, Aws_REGION)

\* function tokenizedMap(regionMap)
tokenizedMap(regionMap) ==
    [i \in 1..Len(regionMap) |->
        [key |-> regionMap[i].key,
         value |-> tokenizedValue(regionMap[i].key, regionMap[i].value)]]

\* Object.values of a map kept as the sequence of its entries.
ObjectValues(map) == [i \in 1..Len(map) |-> map[i].value]

\* function ucfirst(x)
ucfirst(x) ==
    [i \in 1..Len(substr(x, 0, 1)) |-> toUpperCase(substr(x, 0, 1)[i])]
    \o substr(x, 1, Len(x))


\* Line 14: Object.values(lookupMap).length === 0
noLookups(lookupMap) == Len(ObjectValues(lookupMap)) = 0

\* The error of line 16 with a message that does not name the fact.
missingFactError_noFact(factName) ==
    [name    |-> "Error",
     head    |-> "region-info: don't have any information for ",
     fact    |-> <<>>,
     use     |-> "Fact.register",
     context |-> TARGET_PARTITIONS]

\* Line 16: the Error thrown when there are no lookups and no default.
missingFactError(factName) ==
    [name    |-> "Error",
     head    |-> "region-info: don't have any information for ",
     fact    |-> factName,
     use     |-> "Fact.register",
     context |-> TARGET_PARTITIONS]

\* Line 24 comparing the second value only with the first.
everyEqualsFirst_firstTwo(tokenizedValues) ==
    Len(tokenizedValues) < 2 \/ tokenizedValues[2] = tokenizedValues[1]

\* Line 24 asking for at least two values to compare.
everyEqualsFirst_needsTwo(tokenizedValues) ==
    /\ Len(tokenizedValues) >= 2
    /\ \A i \in DOMAIN tokenizedValues : tokenizedValues[i] = tokenizedValues[1]

\* Line 24: tokenizedValues.every((v) => v === tokenizedValues[0])
everyEqualsFirst(tokenizedValues) ==
    \A i \in DOMAIN tokenizedValues : tokenizedValues[i] = tokenizedValues[1]

\* Lines 29-31: [factClass, factParam], splitting on ':' if it exists.
splitFactName(factName) ==
    IF includes(factName, <<":">>)
    THEN LET parts == split(factName, <<":">>)
         IN  [factClass |-> parts[1], factParam |-> parts[2]]
    ELSE [factClass |-> factName, factParam |-> <<"v","a","l","u","e">>]

\* Line 33: `${ucfirst(factClass)}Map`
mapIdOf(factClass) == ucfirst(factClass) \o <<"M","a","p">>

\* Line 34: factParam.replace(/[^a-zA-Z0-9]/g, '_')
factKeyOf(factParam) == replaceNonAlphaNumeric(factParam)

\* Lines 36-39 putting a new, empty mapping in the place of the one found.
findOrCreate_recreate(children, mapId) ==
    LET found == tryFindChild(children, mapId)
    IN  IF found = 0
        THEN [children |-> NewCfnMapping(children, mapId),
              index    |-> Len(children) + 1]
        ELSE [children |-> [children EXCEPT ![found].mapping = <<>>],
              index    |-> found]

\* Lines 36-39 without the lookup of the child: a mapping is created by
\* every call.
findOrCreate_alwaysCreate(children, mapId) ==
    [children |-> NewCfnMapping(children, mapId), index |-> Len(children) + 1]

\* Lines 36-39: the stack with the mapping found or created, and the index
\* of that child.
findOrCreate(children, mapId) ==
    LET found == tryFindChild(children, mapId)
    IN  IF found = 0
        THEN [children |-> NewCfnMapping(children, mapId),
              index    |-> Len(children) + 1]
        ELSE [children |-> children, index |-> found]

RECURSIVE populate_everyRow(_, _, _)
\* Lines 40-42 writing the value of a key under every row key the key has,
\* not only under factKey.
populate_everyRow(mapping, lookupMap, factKey) ==
    IF Len(lookupMap) = 0 THEN mapping
    ELSE LET set == setValue(mapping, lookupMap[1].key, factKey, lookupMap[1].value)
         IN  populate_everyRow(
                [set EXCEPT !.mapping =
                    [p \in DOMAIN set.mapping |->
                        IF p[1] = lookupMap[1].key THEN lookupMap[1].value
                        ELSE set.mapping[p]]],
                Tail(lookupMap), factKey)

RECURSIVE populate_keepExisting(_, _, _)
\* Lines 40-42 setting only the cells that are not set yet.
populate_keepExisting(mapping, lookupMap, factKey) ==
    IF Len(lookupMap) = 0 THEN mapping
    ELSE populate_keepExisting(
            IF <<lookupMap[1].key, factKey>> \in DOMAIN mapping.mapping
            THEN mapping
            ELSE setValue(mapping, lookupMap[1].key, factKey, lookupMap[1].value),
            Tail(lookupMap), factKey)

RECURSIVE populate(_, _, _)
\* Lines 40-42: one setValue per entry of lookupMap, in the order of
\* Object.entries.
populate(mapping, lookupMap, factKey) ==
    IF Len(lookupMap) = 0 THEN mapping
    ELSE populate(setValue(mapping, lookupMap[1].key, factKey, lookupMap[1].value),
                  Tail(lookupMap), factKey)

\* Line 43 with the arguments of findInMap swapped.
lookupExpression_swapped(mapping, factKey) == findInMap(mapping, factKey, Aws_REGION)

\* Line 43: mapping.findInMap(Aws.REGION, factKey)
lookupExpression(mapping, factKey) == findInMap(mapping, Aws_REGION, factKey)

\* Lines 13-19 with the test of the default inverted.
defaultOrThrow_inverted(children, factName, defaultValue) ==
    IF defaultValue.defined
    THEN [children |-> children, outcome |-> "throw", ret |-> NoValue,
          error |-> missingFactError(factName)]
    ELSE [children |-> children, outcome |-> "default",
          ret |-> StringValue(defaultValue.str), error |-> NoError]

\* Lines 13-19: no lookups, so the default is returned or the error thrown.
defaultOrThrow(children, factName, defaultValue) ==
    IF ~defaultValue.defined
    THEN [children |-> children, outcome |-> "throw", ret |-> NoValue,
          error |-> missingFactError(factName)]
    ELSE [children |-> children, outcome |-> "default",
          ret |-> StringValue(defaultValue.str), error |-> NoError]

\* Lines 28-43: the mapping is found or created, populated and looked up in.
\* A child found under mapId is used as a CfnMapping whatever it is: calling
\* setValue on a child without that method throws a TypeError.
materialize(children, factName, lookupMap) ==
    LET name    == splitFactName(factName)
        mapId   == mapIdOf(name.factClass)
        factKey == factKeyOf(name.factParam)
        foc     == findOrCreate(children, mapId)
        mapping == foc.children[foc.index]
    IN  IF ~hasMappingMethods(mapping)
        THEN [children |-> foc.children, outcome |-> "throw", ret |-> NoValue,
              error |-> [NoError EXCEPT !.name = "TypeError"]]
        ELSE LET populated == populate(mapping, lookupMap, factKey)
             IN  [children |-> [foc.children EXCEPT ![foc.index] = populated],
                  outcome  |-> "table",
                  ret      |-> lookupExpression(populated, factKey),
                  error    |-> NoError]

\* deployTimeLookup finding or creating and populating the mapping before it
\* looks for a common pattern.
deployTimeLookup_eager(children, factName, lookupMap, defaultValue) ==
    IF noLookups(lookupMap)
    THEN defaultOrThrow(children, factName, defaultValue)
    ELSE LET tokenizedValues == ObjectValues(tokenizedMap(lookupMap))
             table == materialize(children, factName, lookupMap)
         IN  IF everyEqualsFirst(tokenizedValues)
             THEN [children |-> table.children, outcome |-> "collapsed",
                   ret |-> StringValue(tokenizedValues[1]), error |-> NoError]
             ELSE table

\* Lines 12-44 going to the table without the comparison of lines 23-26
\* when the stack has a child of the id of the fact already.
deployTimeLookup_reuseTable(children, factName, lookupMap, defaultValue) ==
    IF noLookups(lookupMap)
    THEN defaultOrThrow(children, factName, defaultValue)
    ELSE LET tokenizedValues == ObjectValues(tokenizedMap(lookupMap))
             mapId == mapIdOf(splitFactName(factName).factClass)
         IN  IF tryFindChild(children, mapId) = 0 /\ everyEqualsFirst(tokenizedValues)
             THEN [children |-> children, outcome |-> "collapsed",
                   ret |-> StringValue(tokenizedValues[1]), error |-> NoError]
             ELSE materialize(children, factName, lookupMap)

\* export function deployTimeLookup(stack, factName, lookupMap, defaultValue)
deployTimeLookup(children, factName, lookupMap, defaultValue) ==
    IF noLookups(lookupMap)
    THEN defaultOrThrow(children, factName, defaultValue)
    ELSE LET tokenizedValues == ObjectValues(tokenizedMap(lookupMap))
         IN  IF everyEqualsFirst(tokenizedValues)
             THEN [children |-> children, outcome |-> "collapsed",
                   ret |-> StringValue(tokenizedValues[1]), error |-> NoError]
             ELSE materialize(children, factName, lookupMap)

(***************************************************************************)
(* The inputs of the calls.                                                *)
(***************************************************************************)
\* Fact names: "w:a" and "w:b" share the class w, "w" is a bare name,
\* "w:a.b-c" has a param to sanitize, "w:a:b" has two colons, "w:" an empty
\* param and "V:a" is of another class, already capitalized.
FactNames ==
    { <<"w",":","a">>, <<"w",":","b">>, <<"w">>,
      <<"w",":","a",".","b","-","c">>, <<"w",":","a",":","b">>,
      <<"w",":">>, <<"V",":","a">> }

Entry(key, value) == [key |-> key, value |-> value]

\* The lookup maps, as the sequences of their entries in insertion order.
\* "ax" and "bx" follow the pattern <region><suffix> for the regions a and
\* b, "u" is the same everywhere.
LookupMaps ==
    { <<>>,
      \* one key
      << Entry(<<"a">>, <<"a","x">>) >>,
      << Entry(<<"b">>, <<"a","x">>) >>,
      << Entry(<<"c">>, <<"u">>) >>,
      \* the same pattern, or the same literal, for every key
      << Entry(<<"a">>, <<"a","x">>), Entry(<<"b">>, <<"b","x">>) >>,
      << Entry(<<"c">>, <<"u">>), Entry(<<"a">>, <<"u">>) >>,
      \* no common pattern
      << Entry(<<"a">>, <<"u">>), Entry(<<"b">>, <<"a","x">>) >>,
      << Entry(<<"b">>, <<"u">>), Entry(<<"a">>, <<"a","x">>) >>,
      << Entry(<<"b">>, <<"b","x">>), Entry(<<"c">>, <<"b","x">>) >>,
      << Entry(<<"a">>, <<"a","x">>), Entry(<<"b">>, <<"b","x">>),
         Entry(<<"c">>, <<"u">>) >> }

Defaults == { undefined, Some(<<"D">>) }

\* The arguments of a call: every fact name with every lookup map; the
\* default value is left out or given with the empty map, and for the fact
\* "w:a" with every map.
Inputs ==
    { input \in FactNames \X LookupMaps \X Defaults :
        \/ input[2] = <<>>
        \/ ~input[3].defined
        \/ input[1] = <<"w",":","a">> }

NoCall ==
    [op |-> "none", factName |-> <<>>, lookupMap |-> <<>>,
     defaultValue |-> undefined, outcome |-> "none", ret |-> NoValue,
     error |-> NoError]

(***************************************************************************)
(* The state machine: a fresh stack, then calls of deployTimeLookup.       *)
(***************************************************************************)
\* A concurrent call that has not started.
Procs == 1..NumProcs

IdleProc ==
    [pc |-> "idle", factName |-> <<>>, lookupMap |-> <<>>, mapId |-> <<>>,
     factKey |-> <<>>, index |-> 0, todo |-> <<>>, outcome |-> "none",
     ret |-> NoValue]

\* No operation on a role yet.
NoRoleCall ==
    [op |-> "none", role |-> 0, id |-> <<>>, account |-> "", mutable |-> "undefined",
     addGrantsToResources |-> "undefined", statement |-> "", outcome |-> "none",
     ret |-> 0, statementAdded |-> FALSE, policyDependable |-> 0, error |-> "",
     managedPolicies |-> <<>>, managedPolicy |-> "", policy |-> 0]

\* The stack before any role is defined in it, in the account "111".
NoRoles ==
    /\ heap = <<>>
    /\ stackAccount = "111"
    /\ roleLast = NoRoleCall
    /\ roleCalls = 0

\* The stack before any lookup is made on it.
FreshStack ==
    /\ stack = <<>>
    /\ calls = 0
    /\ last = NoCall
    /\ procs = [p \in Procs |-> IdleProc]
    /\ locks = {}

Init == FreshStack /\ NoRoles

DeployTimeLookup(factName, lookupMap, defaultValue) ==
    /\ UNCHANGED <<procVars, roleVars>>
    /\ calls < MaxCalls
    /\ LET r == deployTimeLookup(stack, factName, lookupMap, defaultValue)
       IN  /\ stack' = r.children
           /\ last' = [op |-> "deployTimeLookup", factName |-> factName,
                       lookupMap |-> lookupMap, defaultValue |-> defaultValue,
                       outcome |-> r.outcome, ret |-> r.ret, error |-> r.error]
    /\ calls' = calls + 1

Next ==
    \E input \in Inputs : DeployTimeLookup(input[1], input[2], input[3])

Spec == Init /\ [][Next]_vars

(***************************************************************************)
(* Calls whose lookup maps are keyed by any string a fact can be registered *)
(* for: a key that occurs in the text of a token, a key that occurs in its  *)
(* own domain suffix, a key with an empty domain suffix, a key with none    *)
(* and the empty key, with every short literal value.                       *)
(***************************************************************************)
MaxTokenCalls == 1

MaxValueLen == 2

TokenRegions == { <<"a">>, <<"S">>, <<"d">>, <<"e">>, <<"c">>, <<>> }

\* The characters of the literal values; none is the marker of a token.
ValueChars == { "a", "x", "d", "S", "u" }

LiteralValues ==
    UNION { [1..n -> ValueChars] : n \in 0..MaxValueLen }

\* The maps of one key with every literal value, the maps of two keys whose
\* values are the key followed by "x", and the maps of two keys with the
\* same literal.
TokenMaps ==
    { << Entry(k, v) >> : k \in TokenRegions, v \in LiteralValues }
    \cup { << Entry(ks[1], ks[1] \o <<"x">>), Entry(ks[2], ks[2] \o <<"x">>) >> :
             ks \in { pair \in TokenRegions \X TokenRegions : pair[1] # pair[2] } }
    \cup { << Entry(<<"c">>, <<"u">>), Entry(k, <<"u">>) >> :
             k \in TokenRegions \ { <<"c">> } }

TokenLookup(lookupMap) ==
    /\ calls < MaxTokenCalls
    /\ DeployTimeLookup(<<"w",":","a">>, lookupMap, undefined)

NextTokens ==
    \E lookupMap \in TokenMaps : TokenLookup(lookupMap)

SpecTokens == Init /\ [][NextTokens]_vars

(***************************************************************************)
(* The same stack when other code adds children to it as well: a construct *)
(* or a mapping of another class may sit under the id the lookup derives.  *)
(***************************************************************************)
ForeignIds == { <<"W","M","a","p">>, <<"V","M","a","p">> }

ForeignKinds == { "Construct", "ForeignMapping" }

\* new SomeConstruct(stack, id): ids are unique among the children.
AddForeignChild(id, kind) ==
    /\ UNCHANGED <<procVars, roleVars>>
    /\ tryFindChild(stack, id) = 0
    /\ stack' = Append(stack, [id |-> id, kind |-> kind, mapping |-> <<>>])
    /\ last' = [NoCall EXCEPT !.op = "addChild"]
    /\ UNCHANGED calls

NextConflict ==
    \/ \E input \in Inputs : DeployTimeLookup(input[1], input[2], input[3])
    \/ \E id \in ForeignIds, kind \in ForeignKinds : AddForeignChild(id, kind)

SpecConflict == Init /\ [][NextConflict]_vars

(***************************************************************************)
(* deployTimeLookup calls that run concurrently on the one stack, as in a  *)
(* port to a concurrent environment: each call is cut into the steps of    *)
(* lines 36-43, and the steps from the lookup of the child to the last     *)
(* setValue are a critical section per table identity.                     *)
(***************************************************************************)
\* The calls: two facts of the class w and one of the class V, with two maps
\* that do not collapse and one that does.
ConcurrentInputs ==
    { <<"w",":","a">>, <<"w",":","b">>, <<"V",":","a">> }
    \X { << Entry(<<"a">>, <<"u">>), Entry(<<"b">>, <<"a","x">>) >>,
         << Entry(<<"b">>, <<"b","x">>), Entry(<<"c">>, <<"b","x">>) >>,
         << Entry(<<"a">>, <<"a","x">>) >> }

\* Line 37 taking every lookup for a miss.
mappingMissing_always(found) == TRUE

\* Line 37: if (!mapping)
mappingMissing(found) == found = 0

\* Lines 13-34: the call returns without touching the stack, or has its
\* table identity and row key and goes on to the table.
Begin(p, factName, lookupMap) ==
    /\ procs[p].pc = "idle"
    /\ LET early == noLookups(lookupMap)
                     \/ everyEqualsFirst(ObjectValues(tokenizedMap(lookupMap)))
           r     == deployTimeLookup(stack, factName, lookupMap, undefined)
           name  == splitFactName(factName)
       IN  procs' = [procs EXCEPT ![p] =
              IF early
              THEN [IdleProc EXCEPT !.pc = "done", !.factName = factName,
                                    !.lookupMap = lookupMap,
                                    !.outcome = r.outcome, !.ret = r.ret]
              ELSE [IdleProc EXCEPT !.pc = "enter", !.factName = factName,
                                    !.lookupMap = lookupMap,
                                    !.mapId = mapIdOf(name.factClass),
                                    !.factKey = factKeyOf(name.factParam),
                                    !.todo = lookupMap]]
    /\ UNCHANGED <<stack, calls, last, locks, roleVars>>

\* Entry of the critical section of the table identity.
Enter(p) ==
    /\ procs[p].pc = "enter"
    /\ procs[p].mapId \notin locks
    /\ locks' = locks \cup { procs[p].mapId }
    /\ procs' = [procs EXCEPT ![p].pc = "find"]
    /\ UNCHANGED <<stack, calls, last, roleVars>>

\* Line 36: stack.node.tryFindChild(mapId)
Find(p) ==
    /\ procs[p].pc = "find"
    /\ LET found == tryFindChild(stack, procs[p].mapId)
       IN  procs' = [procs EXCEPT ![p].index = found,
                                  ![p].pc = IF mappingMissing(found)
                                            THEN "create" ELSE "populate"]
    /\ UNCHANGED <<stack, calls, last, locks, roleVars>>

\* Line 38: new CfnMapping(stack, mapId), which throws when the stack has a
\* child of that id already.
Create(p) ==
    /\ procs[p].pc = "create"
    /\ IF tryFindChild(stack, procs[p].mapId) # 0
       THEN /\ procs' = [procs EXCEPT ![p].pc = "done", ![p].outcome = "throw"]
            /\ locks' = locks \ { procs[p].mapId }
            /\ UNCHANGED stack
       ELSE /\ stack' = NewCfnMapping(stack, procs[p].mapId)
            /\ procs' = [procs EXCEPT ![p].index = Len(stack) + 1,
                                      ![p].pc = "populate"]
            /\ UNCHANGED locks
    /\ UNCHANGED <<calls, last, roleVars>>

\* Lines 40-42: one turn of the loop, or its end and the exit of the
\* critical section.
SetValue(p) ==
    /\ procs[p].pc = "populate"
    /\ IF procs[p].todo = <<>>
       THEN /\ procs' = [procs EXCEPT ![p].pc = "return"]
            /\ locks' = locks \ { procs[p].mapId }
            /\ UNCHANGED stack
       ELSE /\ stack' = [stack EXCEPT ![procs[p].index] =
                            setValue(@, procs[p].todo[1].key, procs[p].factKey,
                                     procs[p].todo[1].value)]
            /\ procs' = [procs EXCEPT ![p].todo = Tail(@)]
            /\ UNCHANGED locks
    /\ UNCHANGED <<calls, last, roleVars>>

\* Line 43: return mapping.findInMap(Aws.REGION, factKey)
Return(p) ==
    /\ procs[p].pc = "return"
    /\ procs' = [procs EXCEPT ![p].pc = "done", ![p].outcome = "table",
                              ![p].ret = lookupExpression(stack[procs[p].index],
                                                          procs[p].factKey)]
    /\ UNCHANGED <<stack, calls, last, locks, roleVars>>

NextConcurrent ==
    \E p \in Procs :
        \/ \E input \in ConcurrentInputs : Begin(p, input[1], input[2])
        \/ Enter(p)
        \/ Find(p)
        \/ Create(p)
        \/ SetValue(p)
        \/ Return(p)

SpecConcurrent == Init /\ [][NextConcurrent]_vars

(***************************************************************************)
(* Vocabulary of the properties.                                           *)
(***************************************************************************)
IsCall(l) == l.op = "deployTimeLookup"

\* The keys of a lookup map.
KeysOf(lookupMap) == { lookupMap[i].key : i \in DOMAIN lookupMap }

\* The value a lookup map gives a key.
ValueOf(lookupMap, key) ==
    lookupMap[CHOOSE i \in DOMAIN lookupMap : lookupMap[i].key = key].value

\* The position of the first ':' of a name, 0 when it has none.
FirstColon(name) ==
    IF \E i \in DOMAIN name : name[i] = ":"
    THEN CHOOSE i \in DOMAIN name :
            name[i] = ":" /\ \A j \in 1..(i - 1) : name[j] # ":"
    ELSE 0

\* The class of "<class>:<param>", or the bare name.
ClassOf(name) ==
    IF FirstColon(name) = 0 THEN name ELSE SubSeq(name, 1, FirstColon(name) - 1)

\* The param of "<class>:<param>": the text after the ':', "value" for a
\* bare name.
ParamOf(name) ==
    IF FirstColon(name) = 0 THEN <<"v","a","l","u","e">>
    ELSE SubSeq(name, FirstColon(name) + 1, Len(name))

\* The table identity of a fact: its class with the first character
\* upper-cased, followed by "Map".
TableIdentity(name) ==
    LET class == ClassOf(name)
    IN  (IF class = <<>> THEN <<>>
         ELSE << toUpperCase(class[1]) >> \o Tail(class)) \o <<"M","a","p">>

\* The row key the code derives for a fact.
RowKeyOf(name) == factKeyOf(splitFactName(name).factParam)

\* The indices of the table constructs of an identity.
TablesOf(children, id) ==
    { i \in DOMAIN children : children[i].kind = "CfnMapping" /\ children[i].id = id }

\* The cells of the tables of an identity, and their row keys.
CellsOf(children, id) ==
    UNION { DOMAIN children[i].mapping : i \in TablesOf(children, id) }

RowKeysOf(children, id) == { p[2] : p \in CellsOf(children, id) }

\* Whether a non-empty lookup map collapses: every tokenized value is
\* string-equal to the first one.
Collapses(lookupMap) ==
    \A i \in DOMAIN lookupMap :
        tokenizedValue(lookupMap[i].key, lookupMap[i].value)
            = tokenizedValue(lookupMap[1].key, lookupMap[1].value)

(***************************************************************************)
(* Properties of deployTimeLookup.                                         *)
(***************************************************************************)
WidgetAlpha == <<"w",":","a">>

WidgetBeta == <<"w",":","b">>

WidgetMap == <<"W","M","a","p">>

\* C1: after every call the stack holds at most one table construct per
\* table identity (the class with its first character upper-cased, then
\* "Map"); a call that materializes leaves exactly one table of the fact's
\* identity, and calls for "w:a" and "w:b" that do not collapse add the row
\* keys "a" and "b" to the one table "WMap".
C1_OneTablePerIdentity ==
    [][ IsCall(last') =>
          /\ \A i, j \in DOMAIN stack' :
                (/\ stack'[i].kind = "CfnMapping"
                 /\ stack'[j].kind = "CfnMapping"
                 /\ stack'[i].id = stack'[j].id) => i = j
          /\ last'.outcome = "table" =>
                /\ Cardinality(TablesOf(stack', TableIdentity(last'.factName))) = 1
                /\ \A i \in DOMAIN stack' :
                      \E name \in FactNames : stack'[i].id = TableIdentity(name)
          /\ (last'.outcome = "table" /\ last'.factName \in { WidgetAlpha, WidgetBeta }) =>
                /\ TableIdentity(last'.factName) = WidgetMap
                /\ RowKeysOf(stack', WidgetMap)
                      = RowKeysOf(stack, WidgetMap) \cup { << last'.factName[3] >> }
      ]_vars

\* Two calls, for "w:a" and then "w:b", left one table with both row keys.
C1_Witness ==
    /\ IsCall(last) /\ last.factName = WidgetBeta /\ last.outcome = "table"
    /\ Len(stack) = 1
    /\ stack[1].id = WidgetMap
    /\ RowKeysOf(stack, WidgetMap) = { <<"a">>, <<"b">> }

\* C2: for a non-empty lookup map the collapsed expression is returned if
\* and only if every key's tokenized value equals the first key's; it is
\* then that first tokenized value, and otherwise the call takes the
\* lookup-table path.
C2_CollapseIffAllEqual ==
    (IsCall(last) /\ Len(last.lookupMap) > 0) =>
        LET tokenized == [i \in DOMAIN last.lookupMap |->
                tokenizedValue(last.lookupMap[i].key, last.lookupMap[i].value)]
        IN  /\ last.outcome = "collapsed"
                <=> \A i \in DOMAIN tokenized : tokenized[i] = tokenized[1]
            /\ last.outcome = "collapsed" => last.ret = StringValue(tokenized[1])
            /\ last.outcome # "collapsed" =>
                  last.outcome = "table" /\ last.ret.kind = "FindInMap"

\* A map of two keys with different literal values collapsed to one
\* expression.
C2_Witness ==
    /\ IsCall(last) /\ last.outcome = "collapsed"
    /\ Len(last.lookupMap) = 2
    /\ last.lookupMap[1].value # last.lookupMap[2].value
    /\ last.ret.str = Aws_REGION \o Aws_URL_SUFFIX

\* C3: a non-empty lookup map that does not collapse leaves one table named
\* from the fact's class, holding cell (key, rowKey) = value for every
\* entry of the map, and the call returns the lookup in that table under
\* the region token and the row key, never under a concrete key.
C3_TablePath ==
    (IsCall(last) /\ Len(last.lookupMap) > 0 /\ ~Collapses(last.lookupMap)) =>
        LET id     == TableIdentity(last.factName)
            rowKey == RowKeyOf(last.factName)
        IN  /\ last.outcome = "table"
            /\ Cardinality(TablesOf(stack, id)) = 1
            /\ \A t \in TablesOf(stack, id) :
                  \A key \in KeysOf(last.lookupMap) :
                      /\ <<key, rowKey>> \in DOMAIN stack[t].mapping
                      /\ stack[t].mapping[<<key, rowKey>>] = ValueOf(last.lookupMap, key)
            /\ last.ret = [kind |-> "FindInMap", str |-> <<>>, map |-> id,
                           key1 |-> Aws_REGION, key2 |-> rowKey]
            /\ last.ret.key1 \notin KeysOf(last.lookupMap)

\* The second call reused the table the first one created, under another
\* row key.
C3_Witness ==
    /\ IsCall(last) /\ last.outcome = "table" /\ calls = 2
    /\ Len(stack) = 1
    /\ Cardinality(RowKeysOf(stack, stack[1].id)) = 2
    /\ Len(last.lookupMap) = 3

\* C4: a call with a non-collapsing lookup map does not fail and adds no
\* second table: a table that exists is reused, and afterwards each cell
\* (key, rowKey) of a key of the map holds the value of this call while
\* every other cell keeps the value it had (the last write wins).
C4_LastWriteWins ==
    [][ (IsCall(last') /\ Len(last'.lookupMap) > 0 /\ ~Collapses(last'.lookupMap)) =>
          LET id     == TableIdentity(last'.factName)
              rowKey == RowKeyOf(last'.factName)
          IN  /\ last'.outcome = "table"
              /\ last'.error = NoError
              /\ Len(stack') = (IF TablesOf(stack, id) = {} THEN Len(stack) + 1 ELSE Len(stack))
              /\ Cardinality(TablesOf(stack', id)) = 1
              /\ \A t \in TablesOf(stack', id) :
                    \A p \in DOMAIN stack'[t].mapping :
                        stack'[t].mapping[p] =
                            IF p[2] = rowKey /\ p[1] \in KeysOf(last'.lookupMap)
                            THEN ValueOf(last'.lookupMap, p[1])
                            ELSE stack[t].mapping[p]
      ]_vars

\* The second call for the same fact overwrote the cell of region b, which
\* the first call had set to "bx" together with the cell of region c.
C4_Witness ==
    /\ IsCall(last) /\ last.outcome = "table" /\ calls = 2
    /\ Len(stack) = 1
    /\ DOMAIN stack[1].mapping = { <<k, RowKeyOf(last.factName)>> : k \in Regions }
    /\ stack[1].mapping[<< <<"c">>, RowKeyOf(last.factName) >>] = <<"b","x">>
    /\ stack[1].mapping[<< <<"b">>, RowKeyOf(last.factName) >>] = <<"a","x">>
    /\ <<"c">> \notin KeysOf(last.lookupMap)

\* C5: with an empty lookup map and a default value, the default value is
\* returned as it is, for every fact name.
C5_DefaultVerbatim ==
    (IsCall(last) /\ Len(last.lookupMap) = 0 /\ last.defaultValue.defined) =>
        /\ last.outcome = "default"
        /\ last.ret = StringValue(last.defaultValue.str)
        /\ last.error = NoError

\* The default was returned by a call on a stack that holds a table.
C5_Witness ==
    /\ IsCall(last) /\ Len(last.lookupMap) = 0 /\ last.defaultValue.defined
    /\ last.ret.str = <<"D">>
    /\ stack # <<>>

\* C6: with an empty lookup map and no default value the call throws; the
\* error names the fact, Fact.register and the target-partitions context
\* value, and no value is returned.
C6_MissingFactError ==
    (IsCall(last) /\ Len(last.lookupMap) = 0 /\ ~last.defaultValue.defined) =>
        /\ last.outcome = "throw"
        /\ last.ret = NoValue
        /\ last.error.name = "Error"
        /\ last.error.fact = last.factName
        /\ last.error.use = "Fact.register"
        /\ last.error.context = "@aws-cdk/core:target-partitions"

\* The error was thrown for the fact "w:a.b-c".
C6_Witness ==
    /\ IsCall(last) /\ Len(last.lookupMap) = 0 /\ ~last.defaultValue.defined
    /\ last.outcome = "throw"
    /\ last.error.fact = <<"w",":","a",".","b","-","c">>

\* C7: a call that returns the default, throws the missing-fact error or
\* returns a collapsed expression leaves the stack as it was: no child is
\* added and no cell is set or changed.
C7_NoSideEffect ==
    [][ (IsCall(last') /\ last'.outcome \in { "default", "throw", "collapsed" }) =>
          stack' = stack ]_vars

\* A collapsed expression was returned by a call for a fact whose table
\* exists.
C7_Witness ==
    /\ IsCall(last) /\ last.outcome = "collapsed"
    /\ TablesOf(stack, TableIdentity(last.factName)) # {}
    /\ Len(last.lookupMap) = 2

\* C8: a lookup map of exactly one key returns the tokenized form of its
\* value, whatever the fact name, and leaves the stack as it was.
C8_SingleKeyCollapses ==
    [][ (IsCall(last') /\ Len(last'.lookupMap) = 1) =>
          /\ last'.outcome = "collapsed"
          /\ last'.ret = StringValue(tokenizedValue(last'.lookupMap[1].key,
                                                    last'.lookupMap[1].value))
          /\ stack' = stack ]_vars

\* A one-key map was resolved to a symbolic expression on a stack that
\* holds a table.
C8_Witness ==
    /\ IsCall(last) /\ Len(last.lookupMap) = 1
    /\ last.ret.str = Aws_REGION \o Aws_URL_SUFFIX
    /\ stack # <<>>

\* A row key that is identifier-safe: made of letters, digits and '_' only.
IdentifierSafe(key) == \A i \in DOMAIN key : key[i] \in AlphaNumeric \cup { "_" }

\* C9: the row key of a call is the fact's param (the text after ':', or
\* "value" for a bare name) with every character outside [A-Za-z0-9]
\* replaced by '_', and it is a valid identifier-safe token.
C9_RowKeyIsSanitizedParam ==
    (IsCall(last) /\ last.outcome = "table") =>
        /\ last.ret.key2 =
              [i \in DOMAIN ParamOf(last.factName) |->
                  IF ParamOf(last.factName)[i] \in AlphaNumeric
                  THEN ParamOf(last.factName)[i] ELSE "_"]
        /\ IdentifierSafe(last.ret.key2)

\* C10: a child of another class that sits under the derived table identity
\* is never used as a table: no cell is set on it and no lookup in it is
\* returned, the call throws instead.
C10_TypeMismatchFailsFast ==
    /\ \A i \in DOMAIN stack :
          stack[i].kind # "CfnMapping" => stack[i].mapping = <<>>
    /\ (IsCall(last) /\ last.outcome = "table") =>
          TablesOf(stack, last.ret.map) # {}


\* C11: a cell (key, rowKey) that is set in a table stays set in every
\* later state, whatever value later calls write to it, and a construct of
\* the stack, once created, stays a child of the stack under its id.
C11_CellsAndTablesPersist ==
    [][ /\ Len(stack') >= Len(stack)
        /\ \A i \in DOMAIN stack :
              /\ stack'[i].id = stack[i].id
              /\ stack'[i].kind = stack[i].kind
              /\ DOMAIN stack[i].mapping \subseteq DOMAIN stack'[i].mapping
      ]_vars

\* The second call found the table of the first one and wrote another row
\* key: the cells of the first call are still there.
C11_Witness ==
    /\ calls = 2 /\ IsCall(last) /\ last.outcome = "table"
    /\ last.factName = WidgetBeta
    /\ Len(stack) = 1
    /\ \E p \in DOMAIN stack[1].mapping : p[2] = <<"a">>
    /\ \E p \in DOMAIN stack[1].mapping : p[2] = <<"b">>

\* C19: a call that takes the table path changes nothing but the cells
\* (k, rowKey) of the table of its fact for the keys k of its lookup map:
\* the cells of other row keys and of other keys keep their values, no cell
\* is added elsewhere, and the other children of the stack are untouched.
C19_OnlyOwnCellsChange ==
    [][ (IsCall(last') /\ last'.outcome = "table") =>
          LET id     == TableIdentity(last'.factName)
              rowKey == RowKeyOf(last'.factName)
              own    == { <<k, rowKey>> : k \in KeysOf(last'.lookupMap) }
          IN  /\ \A i \in DOMAIN stack :
                    /\ stack[i].id # id => stack'[i] = stack[i]
                    /\ stack[i].id = id =>
                          /\ \A p \in DOMAIN stack[i].mapping \ own :
                                /\ p \in DOMAIN stack'[i].mapping
                                /\ stack'[i].mapping[p] = stack[i].mapping[p]
                          /\ DOMAIN stack'[i].mapping
                                \subseteq DOMAIN stack[i].mapping \cup own
              /\ \A i \in DOMAIN stack' \ DOMAIN stack :
                    /\ stack'[i].id = id
                    /\ DOMAIN stack'[i].mapping = own
      ]_vars

\* The table "WMap" holds the row key "a" for the keys a and b, and the
\* last call wrote the row key "b" for the keys b and c only: the cell
\* (a, "a") and the cell (b, "a") were left alone and no cell (a, "b") exists.
C19_Witness ==
    /\ calls = 2 /\ IsCall(last) /\ last.outcome = "table"
    /\ last.factName = WidgetBeta
    /\ KeysOf(last.lookupMap) = { <<"b">>, <<"c">> }
    /\ Len(stack) = 1
    /\ <<<<"a">>, <<"a">>>> \in DOMAIN stack[1].mapping
    /\ <<<<"b">>, <<"a">>>> \in DOMAIN stack[1].mapping
    /\ <<<<"a">>, <<"b">>>> \notin DOMAIN stack[1].mapping


(***************************************************************************)
(* Properties of the tokenizer, on the calls that return a tokenized value. *)
(***************************************************************************)
\* A call that returned the single tokenized value of its map.
IsCollapsed(l) == IsCall(l) /\ l.outcome = "collapsed"

\* Whether a key has a domain suffix to substitute.
HasSuffix(key) == domainSuffix(key).defined /\ domainSuffix(key).str # <<>>

\* The literal pieces of a value between the occurrences of the domain
\* suffix of its key.
PiecesBetweenSuffixes(key, value) ==
    IF HasSuffix(key) THEN split(value, domainSuffix(key).str) ELSE << value >>

\* The two substitutions with the inserted domain-suffix tokens kept whole:
\* the region code is replaced in the literal pieces only.
TokensKeptWhole(key, value) ==
    LET pieces == PiecesBetweenSuffixes(key, value)
    IN  join([i \in DOMAIN pieces |-> replaceAll(pieces[i], key, Aws_REGION)],
             Aws_URL_SUFFIX)

\* C16: the tokenized value of a non-empty key is the value with every
\* occurrence of the domain suffix replaced by the suffix token first and
\* every occurrence of the region code replaced by the region token second,
\* and the second replacement leaves the suffix tokens the first one
\* inserted as they are.
C16_SuffixTokensKeptWhole ==
    (IsCollapsed(last) /\ last.lookupMap[1].key # <<>>) =>
        last.ret.str = TokensKeptWhole(last.lookupMap[1].key, last.lookupMap[1].value)

\* A substitution that is skipped when its concrete value is undefined or
\* the empty string.
SubstituteUnlessEmpty(x, concrete, token) ==
    IF concrete.defined /\ concrete.str # <<>>
    THEN replaceAll(x, concrete.str, token)
    ELSE x

\* C17: a substitution whose concrete value is undefined or empty for the
\* key (the domain suffix, or the region code itself) is skipped, the value
\* is left as it is by it, and the other substitution is still applied.
C17_EmptySubstitutionSkipped ==
    IsCollapsed(last) =>
        LET key   == last.lookupMap[1].key
            value == last.lookupMap[1].value
        IN  last.ret.str
              = SubstituteUnlessEmpty(
                    SubstituteUnlessEmpty(value, domainSuffix(key), Aws_URL_SUFFIX),
                    Some(key), Aws_REGION)


\* Whether the text of a token stands at position i of an expression.
TokenAt(x, i, token) ==
    /\ i + Len(token) - 1 <= Len(x)
    /\ SubSeq(x, i, i + Len(token) - 1) = token

RECURSIVE ResolveFrom(_, _, _)
\* The expression from position i on with its tokens resolved for a key: one
\* pass from left to right, a region token giving the key, a domain-suffix
\* token the domain suffix of the key, any other character itself.
ResolveFrom(x, i, key) ==
    IF i > Len(x) THEN <<>>
    ELSE IF TokenAt(x, i, Aws_REGION)
    THEN key \o ResolveFrom(x, i + Len(Aws_REGION), key)
    ELSE IF TokenAt(x, i, Aws_URL_SUFFIX)
    THEN domainSuffix(key).str \o ResolveFrom(x, i + Len(Aws_URL_SUFFIX), key)
    ELSE << x[i] >> \o ResolveFrom(x, i + 1, key)

\* C18: when a call collapses its lookup map, the expression it returns
\* stands for the value of every key: with its region tokens replaced by
\* the key and its domain-suffix tokens by the domain suffix of the key it
\* is the literal value the map has for that key.
C18_CollapsedExpressionRoundTrips ==
    IsCollapsed(last) =>
        \A i \in DOMAIN last.lookupMap :
            ResolveFrom(last.ret.str, 1, last.lookupMap[i].key)
                = last.lookupMap[i].value


(***************************************************************************)
(* Properties of the concurrent calls.                                     *)
(***************************************************************************)
\* C20: when the lookup of the table, its creation and its population are a
\* critical section per table identity, then in every interleaving of the
\* concurrent calls the stack holds at most one table per identity and no
\* call fails; once every call has returned, each call that took the table
\* path finds its cells in the one table of its identity.
C20_CriticalSectionOneTable ==
    /\ \A i, j \in DOMAIN stack : stack[i].id = stack[j].id => i = j
    /\ \A p \in Procs : procs[p].outcome # "throw"
    /\ (\A p \in Procs : procs[p].pc = "done") =>
          \A p \in Procs :
              procs[p].outcome = "table" =>
                /\ Cardinality(TablesOf(stack, procs[p].mapId)) = 1
                /\ \A k \in KeysOf(procs[p].lookupMap) :
                      <<k, procs[p].factKey>> \in CellsOf(stack, procs[p].mapId)

\* Every call has returned, the calls for "w:a" and for "w:b" among them,
\* both on the table path, and the stack holds the one table "WMap".
C20_Witness ==
    /\ \A p \in Procs : procs[p].pc = "done" /\ procs[p].outcome = "table"
    /\ \E p, q \in Procs :
          /\ procs[p].factName = WidgetAlpha
          /\ procs[q].factName = WidgetBeta
    /\ \A p \in Procs : procs[p].mapId = WidgetMap
    /\ Len(stack) = 1
    /\ RowKeysOf(stack, WidgetMap) = { <<"a">>, <<"b">> }


(***************************************************************************)
(* IAM roles (role.ts).  The constructs live in heap and are referred to   *)
(* by their index, 0 standing for undefined; an object keeps its index for *)
(* good, so equal references are the same object.  Every object has the    *)
(* fields of all kinds, the ones of other kinds at their empty value.      *)
(* Construct ids are sequences of their pieces.                            *)
(***************************************************************************)
\* An account that is a token: its value is not known at synthesis time.
UnresolvedAccount == "${Token[Account]}"

\* Token.isUnresolved(x)
isUnresolved(x) == x = UnresolvedAccount

\* Token.compareStrings(possibleToken1, possibleToken2)
compareStrings(a, b) ==
    IF isUnresolved(a) /\ isUnresolved(b) THEN "BOTH_UNRESOLVED"
    ELSE IF isUnresolved(a) \/ isUnresolved(b) THEN "ONE_UNRESOLVED"
    ELSE IF a = b THEN "SAME"
    ELSE "DIFFERENT"

\* A construct with its fields empty.  parent is the construct it is
\* scoped to, 0 for the stack.
NewObject(kind, parent, id, account) ==
    [kind |-> kind, parent |-> parent, id |-> id, account |-> account,
     defaultPolicy |-> 0, managedPolicies |-> <<>>, attachedPolicies |-> <<>>,
     immutableRole |-> 0, role |-> 0, addGrantsToResources |-> FALSE,
     statements |-> <<>>, roles |-> <<>>]

\* new Policy(scope, id): a Resource takes the account of its stack.
NewPolicy(h, scope, id) ==
    Append(h, NewObject("Policy", scope, id, stackAccount))

\* new ImmutableRole(scope, id, role, addGrantsToResources)
NewImmutableRole(h, scope, id, role, addGrantsToResources) ==
    Append(h, [NewObject("ImmutableRole", scope, id, h[role].account)
                 EXCEPT !.role = role,
                        !.addGrantsToResources = addGrantsToResources])

\* AttachedPolicies.attach(policy): a policy is attached once.
attach(h, role, policy) ==
    IF \E i \in DOMAIN h[role].attachedPolicies : h[role].attachedPolicies[i] = policy
    THEN h
    ELSE [h EXCEPT ![role].attachedPolicies = Append(@, policy)]

\* Policy.attachToRole(role): a role is added once.
attachToRole(h, policy, role) ==
    IF \E i \in DOMAIN h[policy].roles : h[policy].roles[i] = role
    THEN h
    ELSE [h EXCEPT ![policy].roles = Append(@, role)]

\* Policy.addStatements(statement)
addStatements(h, policy, statement) ==
    [h EXCEPT ![policy].statements = Append(@, statement)]

\* Lines 406-409: Role.attachInlinePolicy(policy)
Role_attachInlinePolicy(h, role, policy) ==
    attachToRole(attach(h, role, policy), policy, role)

\* Lines 380-387 creating a default policy on every call.
Role_addToPrincipalPolicy_eager(h, role, statement) ==
    LET policy  == Len(h) + 1
        created == Role_attachInlinePolicy(
                      [NewPolicy(h, role, <<"DefaultPolicy">>)
                          EXCEPT ![role].defaultPolicy = policy],
                      role, policy)
    IN  [heap |-> addStatements(created, policy, statement),
         statementAdded |-> TRUE, policyDependable |-> policy]

\* Lines 380-387: Role.addToPrincipalPolicy(statement)
Role_addToPrincipalPolicy(h, role, statement) ==
    LET policy  == IF h[role].defaultPolicy = 0 THEN Len(h) + 1
                   ELSE h[role].defaultPolicy
        created == IF h[role].defaultPolicy = 0
                   THEN Role_attachInlinePolicy(
                           [NewPolicy(h, role, <<"DefaultPolicy">>)
                               EXCEPT ![role].defaultPolicy = policy],
                           role, policy)
                   ELSE h
    IN  [heap |-> addStatements(created, policy, statement),
         statementAdded |-> TRUE, policyDependable |-> policy]

\* Lines 397-400 pushing the policy whether it is in the list or not.
Role_addManagedPolicy_push(h, role, policy) ==
    [h EXCEPT ![role].managedPolicies = Append(@, policy)]

\* Lines 397-400: Role.addManagedPolicy(policy)
Role_addManagedPolicy(h, role, policy) ==
    IF \E i \in DOMAIN h[role].managedPolicies : h[role].managedPolicies[i] = policy
    THEN h
    ELSE [h EXCEPT ![role].managedPolicies = Append(@, policy)]

\* Lines 389-391: Role.addToPolicy(statement)
Role_addToPolicy(h, role, statement) ==
    LET r == Role_addToPrincipalPolicy(h, role, statement)
    IN  [heap |-> r.heap, statementAdded |-> r.statementAdded,
         policyDependable |-> 0]


\* options.addGrantsToResources ?? false, for an option that is "undefined",
\* "true" or "false".
orFalse(option) == option = "true"

\* Lines 439-445 creating an immutable role on every call.
withoutPolicyUpdates_always(h, role, addGrantsToResources) ==
    LET immutable == Len(h) + 1
    IN  [heap |-> [NewImmutableRole(h, h[role].parent,
                                    <<"ImmutableRole">> \o h[role].id, role,
                                    orFalse(addGrantsToResources))
                     EXCEPT ![role].immutableRole = immutable],
         ret  |-> immutable]

\* Lines 439-445: Role.withoutPolicyUpdates(options)
withoutPolicyUpdates(h, role, addGrantsToResources) ==
    IF h[role].immutableRole = 0
    THEN LET immutable == Len(h) + 1
         IN  [heap |-> [NewImmutableRole(h, h[role].parent,
                                         <<"ImmutableRole">> \o h[role].id, role,
                                         orFalse(addGrantsToResources))
                          EXCEPT ![role].immutableRole = immutable],
              ret  |-> immutable]
    ELSE [heap |-> h, ret |-> h[role].immutableRole]

\* Lines 225-234 without the comparison of the accounts.
Import_attachInlinePolicy_anyAccount(h, role, policy) ==
    attachToRole(attach(h, role, policy), policy, role)

\* Lines 225-234: Import.attachInlinePolicy(policy)
Import_attachInlinePolicy(h, role, policy) ==
    LET thisAndPolicyAccountComparison ==
            compareStrings(h[role].account, h[policy].account)
        equalOrAnyUnresolved ==
            thisAndPolicyAccountComparison
                \in { "SAME", "BOTH_UNRESOLVED", "ONE_UNRESOLVED" }
    IN  IF equalOrAnyUnresolved
        THEN attachToRole(attach(h, role, policy), policy, role)
        ELSE h

\* Lines 236-238: Import.addManagedPolicy(_policy) does nothing.
Import_addManagedPolicy(h, role, policy) == h

\* Lines 216-223: Import.addToPrincipalPolicy(statement)
Import_addToPrincipalPolicy(h, role, statement) ==
    LET policy  == IF h[role].defaultPolicy = 0 THEN Len(h) + 1
                   ELSE h[role].defaultPolicy
        created == IF h[role].defaultPolicy = 0
                   THEN Import_attachInlinePolicy(
                           [NewPolicy(h, role, <<"Policy">>)
                               EXCEPT ![role].defaultPolicy = policy],
                           role, policy)
                   ELSE h
    IN  [heap |-> addStatements(created, policy, statement),
         statementAdded |-> TRUE, policyDependable |-> policy]

\* Lines 212-214: Import.addToPolicy(statement)
Import_addToPolicy(h, role, statement) ==
    LET r == Import_addToPrincipalPolicy(h, role, statement)
    IN  [heap |-> r.heap, statementAdded |-> r.statementAdded,
         policyDependable |-> 0]

\* Lines 260-262: options.addGrantsToResources !== undefined
\*                && options.mutable !== false
addGrantsNeedsImmutable(mutable, addGrantsToResources) ==
    addGrantsToResources # "undefined" /\ mutable # "false"

\* Lines 269-272 returning the imported role whenever mutable is not false.
returnsImported_anyAccount(mutable, comparison) == mutable # "false"

\* Lines 266-270: options.mutable !== false && equalOrAnyUnresolved
returnsImported(mutable, comparison) ==
    /\ mutable # "false"
    /\ comparison \in { "SAME", "BOTH_UNRESOLVED", "ONE_UNRESOLVED" }

\* Lines 186-273 with the test of lines 260-262 made after line 264, when
\* the imported role is in the scope already.
fromRoleArn_checkAfterImport(h, id, roleAccount, mutable, addGrantsToResources) ==
    LET importedRole == Len(h) + 1
        imported     == Append(h, NewObject("Import", 0, id, roleAccount))
        roleArnAndScopeStackAccountComparison ==
            compareStrings(imported[importedRole].account, stackAccount)
    IN  IF addGrantsNeedsImmutable(mutable, addGrantsToResources)
        THEN [heap |-> imported, outcome |-> "throw", ret |-> 0,
              error |-> "'addGrantsToResources' can only be passed if 'mutable: false'"]
        ELSE IF returnsImported(mutable, roleArnAndScopeStackAccountComparison)
        THEN [heap |-> imported, outcome |-> "return",
              ret |-> importedRole, error |-> ""]
        ELSE [heap |-> NewImmutableRole(imported, 0, <<"ImmutableRole">> \o id,
                                        importedRole,
                                        orFalse(addGrantsToResources)),
              outcome |-> "return", ret |-> importedRole + 1, error |-> ""]

\* Lines 186-273: Role.fromRoleArn(scope, id, roleArn, options), scope being
\* the stack and roleAccount the account of roleArn.
fromRoleArn(h, id, roleAccount, mutable, addGrantsToResources) ==
    IF addGrantsNeedsImmutable(mutable, addGrantsToResources)
    THEN [heap |-> h, outcome |-> "throw", ret |-> 0,
          error |-> "'addGrantsToResources' can only be passed if 'mutable: false'"]
    ELSE LET importedRole == Len(h) + 1
             imported     == Append(h, NewObject("Import", 0, id, roleAccount))
             roleArnAndScopeStackAccountComparison ==
                 compareStrings(imported[importedRole].account, stackAccount)
         IN  IF returnsImported(mutable, roleArnAndScopeStackAccountComparison)
             THEN [heap |-> imported, outcome |-> "return",
                   ret |-> importedRole, error |-> ""]
             ELSE [heap |-> NewImmutableRole(imported, 0,
                                             <<"ImmutableRole">> \o id,
                                             importedRole,
                                             orFalse(addGrantsToResources)),
                   outcome |-> "return", ret |-> importedRole + 1,
                   error |-> ""]


(***************************************************************************)
(* The state machine of the roles: a stack in some account, then roles are *)
(* defined in it, imported into it, wrapped and given statements.          *)
(***************************************************************************)
RoleIds == { <<"R">>, <<"Q">> }

ImportIds == { <<"I">> }

Statements == { "s1", "s2" }

\* The values of an optional boolean.
Options == { "undefined", "true", "false" }

\* The account of the stack, and the account in the ARN of an imported role.
StackAccounts == { "111", "222", UnresolvedAccount }

ArnAccounts == { "111", UnresolvedAccount }

\* Managed policies, each name a policy object of its own, and the lists
\* of them a role can be constructed with: none, one, or one twice.
ManagedPolicies == { "m1", "m2" }

ManagedPolicyProps == { <<>>, <<"m2">>, <<"m1", "m1">> }

\* Policies defined on their own, in a stack of any account.
PolicyIds == { <<"P">> }

\* The scope of a construct of another stack.
OtherStack == -1

\* The children of the stack with an id.
ChildrenOfStack(h, id) == { i \in DOMAIN h : h[i].parent = 0 /\ h[i].id = id }

\* The roles the caller holds a reference to and can give statements: the
\* roles it constructed and the imported roles fromRoleArn returned as they
\* are.
MutableRoles(h) ==
    { i \in DOMAIN h :
        \/ h[i].kind = "Role"
        \/ /\ h[i].kind = "Import"
           /\ \A j \in DOMAIN h : ~(h[j].kind = "ImmutableRole" /\ h[j].role = i) }

InitRole ==
    /\ FreshStack
    /\ heap = <<>>
    /\ stackAccount \in StackAccounts
    /\ roleLast = NoRoleCall
    /\ roleCalls = 0

\* Lines 319-373: new Role(stack, id, props); ids are unique among the
\* children of the stack.  Line 330 pushes props.managedPolicies as given.
NewRole(id, managedPolicies) ==
    /\ roleCalls < MaxRoleCalls
    /\ ChildrenOfStack(heap, id) = {}
    /\ heap' = Append(heap, [NewObject("Role", 0, id, stackAccount)
                               EXCEPT !.managedPolicies = managedPolicies])
    /\ roleLast' = [NoRoleCall EXCEPT !.op = "new Role", !.id = id,
                                      !.managedPolicies = managedPolicies,
                                      !.outcome = "return", !.ret = Len(heap) + 1]
    /\ roleCalls' = roleCalls + 1
    /\ UNCHANGED <<stack, calls, last, procVars, stackAccount>>

\* new Policy(someStack, id), someStack being a stack of the given account.
NewPolicyInStack(id, account) ==
    /\ roleCalls < MaxRoleCalls
    /\ \A i \in DOMAIN heap : ~(heap[i].parent = OtherStack /\ heap[i].id = id)
    /\ heap' = Append(heap, NewObject("Policy", OtherStack, id, account))
    /\ roleLast' = [NoRoleCall EXCEPT !.op = "new Policy", !.id = id,
                                      !.account = account,
                                      !.outcome = "return", !.ret = Len(heap) + 1]
    /\ roleCalls' = roleCalls + 1
    /\ UNCHANGED <<stack, calls, last, procVars, stackAccount>>

\* role.addManagedPolicy(policy), on a Role or on an imported role.
AddManagedPolicy(role, policy) ==
    /\ roleCalls < MaxRoleCalls
    /\ role \in MutableRoles(heap)
    /\ heap' = IF heap[role].kind = "Role"
               THEN Role_addManagedPolicy(heap, role, policy)
               ELSE Import_addManagedPolicy(heap, role, policy)
    /\ roleLast' = [NoRoleCall EXCEPT !.op = "addManagedPolicy", !.role = role,
                                      !.managedPolicy = policy,
                                      !.outcome = "return"]
    /\ roleCalls' = roleCalls + 1
    /\ UNCHANGED <<stack, calls, last, procVars, stackAccount>>

\* role.attachInlinePolicy(policy), on a Role or on an imported role, with a
\* policy defined on its own.
AttachInlinePolicy(role, policy) ==
    /\ roleCalls < MaxRoleCalls
    /\ role \in MutableRoles(heap)
    /\ policy \in DOMAIN heap
    /\ heap[policy].kind = "Policy" /\ heap[policy].parent = OtherStack
    /\ heap' = IF heap[role].kind = "Role"
               THEN Role_attachInlinePolicy(heap, role, policy)
               ELSE Import_attachInlinePolicy(heap, role, policy)
    /\ roleLast' = [NoRoleCall EXCEPT !.op = "attachInlinePolicy", !.role = role,
                                      !.policy = policy, !.outcome = "return"]
    /\ roleCalls' = roleCalls + 1
    /\ UNCHANGED <<stack, calls, last, procVars, stackAccount>>

\* role.addToPrincipalPolicy(statement), on a Role or on an imported role.
AddToPrincipalPolicy(role, statement) ==
    /\ roleCalls < MaxRoleCalls
    /\ role \in MutableRoles(heap)
    /\ LET r == IF heap[role].kind = "Role"
                THEN Role_addToPrincipalPolicy(heap, role, statement)
                ELSE Import_addToPrincipalPolicy(heap, role, statement)
       IN  /\ heap' = r.heap
           /\ roleLast' = [NoRoleCall EXCEPT !.op = "addToPrincipalPolicy",
                              !.role = role, !.statement = statement,
                              !.outcome = "return",
                              !.statementAdded = r.statementAdded,
                              !.policyDependable = r.policyDependable]
    /\ roleCalls' = roleCalls + 1
    /\ UNCHANGED <<stack, calls, last, procVars, stackAccount>>

\* role.addToPolicy(statement), on a Role or on an imported role.
AddToPolicy(role, statement) ==
    /\ roleCalls < MaxRoleCalls
    /\ role \in MutableRoles(heap)
    /\ LET r == IF heap[role].kind = "Role"
                THEN Role_addToPolicy(heap, role, statement)
                ELSE Import_addToPolicy(heap, role, statement)
       IN  /\ heap' = r.heap
           /\ roleLast' = [NoRoleCall EXCEPT !.op = "addToPolicy",
                              !.role = role, !.statement = statement,
                              !.outcome = "return",
                              !.statementAdded = r.statementAdded]
    /\ roleCalls' = roleCalls + 1
    /\ UNCHANGED <<stack, calls, last, procVars, stackAccount>>

\* role.withoutPolicyUpdates(options), on a Role.
WithoutPolicyUpdates(role, addGrantsToResources) ==
    /\ roleCalls < MaxRoleCalls
    /\ role \in DOMAIN heap /\ heap[role].kind = "Role"
    /\ LET r == withoutPolicyUpdates(heap, role, addGrantsToResources)
       IN  /\ heap' = r.heap
           /\ roleLast' = [NoRoleCall EXCEPT !.op = "withoutPolicyUpdates",
                              !.role = role,
                              !.addGrantsToResources = addGrantsToResources,
                              !.outcome = "return", !.ret = r.ret]
    /\ roleCalls' = roleCalls + 1
    /\ UNCHANGED <<stack, calls, last, procVars, stackAccount>>

\* Role.fromRoleArn(stack, id, roleArn, options); ids are unique among the
\* children of the stack.
FromRoleArn(id, roleAccount, mutable, addGrantsToResources) ==
    /\ roleCalls < MaxRoleCalls
    /\ ChildrenOfStack(heap, id) = {}
    /\ LET r == fromRoleArn(heap, id, roleAccount, mutable, addGrantsToResources)
       IN  /\ heap' = r.heap
           /\ roleLast' = [NoRoleCall EXCEPT !.op = "fromRoleArn", !.id = id,
                              !.account = roleAccount, !.mutable = mutable,
                              !.addGrantsToResources = addGrantsToResources,
                              !.outcome = r.outcome, !.ret = r.ret,
                              !.error = r.error]
    /\ roleCalls' = roleCalls + 1
    /\ UNCHANGED <<stack, calls, last, procVars, stackAccount>>

NextRole ==
    \/ \E id \in RoleIds, managedPolicies \in ManagedPolicyProps :
          NewRole(id, managedPolicies)
    \/ \E id \in PolicyIds, account \in StackAccounts :
          NewPolicyInStack(id, account)
    \/ \E role \in DOMAIN heap, policy \in ManagedPolicies :
          AddManagedPolicy(role, policy)
    \/ \E role \in DOMAIN heap, policy \in DOMAIN heap :
          AttachInlinePolicy(role, policy)
    \/ \E role \in DOMAIN heap, statement \in Statements :
          AddToPrincipalPolicy(role, statement)
    \/ \E role \in DOMAIN heap, statement \in Statements :
          AddToPolicy(role, statement)
    \/ \E role \in DOMAIN heap, option \in Options :
          WithoutPolicyUpdates(role, option)
    \/ \E id \in ImportIds, roleAccount \in ArnAccounts,
           mutable \in Options, addGrants \in Options :
          FromRoleArn(id, roleAccount, mutable, addGrants)

SpecRole == InitRole /\ [][NextRole]_vars


(***************************************************************************)
(* Properties of the roles.                                                *)
(***************************************************************************)
\* The elements of a sequence of references.
Refs(seq) == { seq[i] : i \in DOMAIN seq }

\* The policies scoped to a role: the default policies made for it.
PoliciesOf(h, role) ==
    { j \in DOMAIN h : h[j].kind = "Policy" /\ h[j].parent = role }

\* The immutable roles that wrap a role.
ImmutableRolesOf(h, role) ==
    { j \in DOMAIN h : h[j].kind = "ImmutableRole" /\ h[j].role = role }

\* C12: addToPrincipalPolicy and addToPolicy create the default policy of
\* the role on the first call and never again: after the call the role has
\* exactly one default policy, the one it had before if it had one; the
\* policy is attached to the role; its statements are the ones added by
\* the earlier calls followed by the statement of this call; and the call
\* reports statementAdded = true.
C12_OneDefaultPolicy ==
    [][ roleLast'.op \in { "addToPrincipalPolicy", "addToPolicy" } =>
          LET role   == roleLast'.role
              before == heap[role].defaultPolicy
              policy == heap'[role].defaultPolicy
          IN  /\ policy # 0
              /\ PoliciesOf(heap', role) = { policy }
              /\ before # 0 => policy = before /\ Len(heap') = Len(heap)
              /\ before = 0 => policy = Len(heap) + 1 /\ Len(heap') = Len(heap) + 1
              /\ policy \in Refs(heap'[role].attachedPolicies)
              /\ role \in Refs(heap'[policy].roles)
              /\ heap'[policy].statements
                    = (IF before = 0 THEN <<>> ELSE heap[before].statements)
                      \o << roleLast'.statement >>
              /\ roleLast'.statementAdded
      ]_vars

\* A role was given a statement by addToPrincipalPolicy and another one by
\* addToPolicy: both are in its one default policy.
C12_Witness ==
    /\ roleLast.op = "addToPolicy"
    /\ heap[roleLast.role].kind = "Role"
    /\ heap[roleLast.role].defaultPolicy # 0
    /\ heap[heap[roleLast.role].defaultPolicy].statements = << "s1", "s2" >>
    /\ Cardinality(PoliciesOf(heap, roleLast.role)) = 1

\* What C13 says of the role a call of fromRoleArn gives: the imported role
\* itself when mutable is not false and the accounts are equal or
\* unresolved, else an immutable role that wraps the imported role, with
\* addGrantsToResources false unless given as true.
ReturnsAsC13Says ==
    LET comparison == compareStrings(roleLast.account, stackAccount)
        ret        == roleLast.ret
    IN  /\ ret \in DOMAIN heap
        /\ heap[ret].kind = "Import"
              <=> /\ roleLast.mutable # "false"
                  /\ comparison \in { "SAME", "BOTH_UNRESOLVED", "ONE_UNRESOLVED" }
        /\ heap[ret].kind = "Import" =>
              /\ heap[ret].id = roleLast.id
              /\ heap[ret].account = roleLast.account
              /\ ImmutableRolesOf(heap, ret) = {}
        /\ heap[ret].kind # "Import" =>
              /\ heap[ret].kind = "ImmutableRole"
              /\ heap[ret].id = <<"ImmutableRole">> \o roleLast.id
              /\ heap[ret].role \in DOMAIN heap
              /\ heap[heap[ret].role].kind = "Import"
              /\ heap[heap[ret].role].id = roleLast.id
              /\ heap[heap[ret].role].account = roleLast.account
              /\ heap[ret].addGrantsToResources
                    = (roleLast.addGrantsToResources = "true")

\* C13 as stated: every call of fromRoleArn returns the imported role
\* exactly when mutable is not false and the account comparison is SAME,
\* BOTH_UNRESOLVED or ONE_UNRESOLVED, and an immutable role around it in
\* every other case.
C13_AsStated ==
    roleLast.op = "fromRoleArn" => ReturnsAsC13Says

\* C13, amended: a call of fromRoleArn that does not throw (it throws when
\* addGrantsToResources is given and mutable is not false) returns the
\* imported role exactly when mutable is not false and the account
\* comparison is SAME, BOTH_UNRESOLVED or ONE_UNRESOLVED, and in every other
\* case an immutable role around the imported role, with
\* addGrantsToResources defaulting to false.
C13_ReturnedRole ==
    (roleLast.op = "fromRoleArn" /\ roleLast.outcome = "return") =>
        ReturnsAsC13Says

\* A role of the account "111" imported with default options into a stack
\* of the account "222" came back wrapped, addGrantsToResources false.
C13_Witness ==
    /\ roleLast.op = "fromRoleArn" /\ roleLast.outcome = "return"
    /\ roleLast.mutable = "undefined"
    /\ roleLast.addGrantsToResources = "undefined"
    /\ compareStrings(roleLast.account, stackAccount) = "DIFFERENT"
    /\ heap[roleLast.ret].kind = "ImmutableRole"
    /\ ~heap[roleLast.ret].addGrantsToResources


\* C14: a call of fromRoleArn whose options give addGrantsToResources, as
\* true or as false, while mutable is not false throws its error and leaves
\* the constructs as they were: no imported role and no immutable role has
\* been added to the scope.
C14_ThrowsBeforeImport ==
    [][ (/\ roleLast'.op = "fromRoleArn"
         /\ roleLast'.addGrantsToResources \in { "true", "false" }
         /\ roleLast'.mutable # "false") =>
          /\ roleLast'.outcome = "throw"
          /\ roleLast'.error
                = "'addGrantsToResources' can only be passed if 'mutable: false'"
          /\ roleLast'.ret = 0
          /\ heap' = heap
      ]_vars

\* fromRoleArn threw for addGrantsToResources: false with mutable left
\* out, in a stack that has a role already; the stack has no child of the
\* id of the call.
C14_Witness ==
    /\ roleLast.op = "fromRoleArn" /\ roleLast.outcome = "throw"
    /\ roleLast.addGrantsToResources = "false"
    /\ roleLast.mutable = "undefined"
    /\ Len(heap) = 1
    /\ ChildrenOfStack(heap, roleLast.id) = {}

\* C15: withoutPolicyUpdates creates the immutable role of a role on the
\* first call only, next to the role and wrapping it; every later call
\* returns that same object and changes nothing, whatever its
\* addGrantsToResources.
C15_ImmutableRoleMemoised ==
    [][ roleLast'.op = "withoutPolicyUpdates" =>
          LET role   == roleLast'.role
              before == heap[role].immutableRole
              ret    == roleLast'.ret
          IN  /\ ret # 0
              /\ heap'[role].immutableRole = ret
              /\ ImmutableRolesOf(heap', role) = { ret }
              /\ before # 0 => ret = before /\ heap' = heap
              /\ before = 0 =>
                    /\ ret = Len(heap) + 1
                    /\ Len(heap') = Len(heap) + 1
                    /\ heap'[ret].parent = heap[role].parent
                    /\ heap'[ret].id = <<"ImmutableRole">> \o heap[role].id
                    /\ heap'[ret].addGrantsToResources
                          = (roleLast'.addGrantsToResources = "true")
      ]_vars

\* The third operation asked for addGrantsToResources: true on a role whose
\* immutable role had been made before with the default: the object
\* returned is that one, its addGrantsToResources still false.
C15_Witness ==
    /\ roleCalls = 3
    /\ roleLast.op = "withoutPolicyUpdates"
    /\ roleLast.addGrantsToResources = "true"
    /\ Len(heap) = 2
    /\ roleLast.ret = 2
    /\ heap[2].kind = "ImmutableRole" /\ heap[2].role = roleLast.role
    /\ ~heap[2].addGrantsToResources


(***************************************************************************)
(* The result of deployTimeLookup and the state of the stack.              *)
(***************************************************************************)
\* What a call with the arguments of the last call gives on a stack that
\* holds nothing.
OnEmptyStack(l) ==
    deployTimeLookup(<<>>, l.factName, l.lookupMap, l.defaultValue)

\* C21: what a call of deployTimeLookup returns (or throws) is what the call
\* with the same fact name, lookup map and default returns on an empty
\* stack, whatever tables and cells the stack held before the call: calls
\* with equal arguments return equal expressions, whether the table existed
\* already or not.
C21_ReturnIndependentOfStack ==
    IsCall(last) =>
        /\ last.outcome = OnEmptyStack(last).outcome
        /\ last.ret = OnEmptyStack(last).ret
        /\ last.error = OnEmptyStack(last).error

\* The second call, for "w:a", found the table "WMap" with cells of the row
\* key "a" that an earlier call had written for another map, and returned
\* the lookup in the table.
C21_Witness ==
    /\ calls = 2 /\ IsCall(last) /\ last.outcome = "table"
    /\ last.factName = WidgetAlpha
    /\ Len(stack) = 1
    /\ \E p \in DOMAIN stack[1].mapping :
          p[2] = <<"a">> /\ p[1] \notin KeysOf(last.lookupMap)
    /\ last.ret = findInMap(stack[1], Aws_REGION, <<"a">>)


(***************************************************************************)
(* Properties of the managed and the inline policies of a role.            *)
(***************************************************************************)
\* How often a policy object is in a list of managed policies.
Occurrences(list, policy) ==
    Cardinality({ i \in DOMAIN list : list[i] = policy })

\* C22: addManagedPolicy on a Role with a policy object that is in the list
\* of its managed policies changes nothing; with any other policy it puts
\* the policy at the end of the list.  So the policies it adds are in the
\* list once each, in the order in which they were first added, after the
\* policies the role was constructed with.
C22_AddManagedPolicyIdempotent ==
    [][ (roleLast'.op = "addManagedPolicy" /\ heap[roleLast'.role].kind = "Role") =>
          LET role   == roleLast'.role
              policy == roleLast'.managedPolicy
              before == heap[role].managedPolicies
              after  == heap'[role].managedPolicies
          IN  /\ Occurrences(before, policy) > 0 => heap' = heap
              /\ Occurrences(before, policy) = 0 =>
                    /\ after = Append(before, policy)
                    /\ Occurrences(after, policy) = 1
                    /\ heap' = [heap EXCEPT ![role].managedPolicies = after]
      ]_vars

\* A role constructed without managed policies was given the policy m1
\* twice: the policy is in its list once.
C22_Witness ==
    /\ roleCalls = 3
    /\ roleLast.op = "addManagedPolicy" /\ roleLast.managedPolicy = "m1"
    /\ Len(heap) = 1 /\ heap[1].kind = "Role"
    /\ heap[1].managedPolicies = << "m1" >>

\* C23: attachInlinePolicy on an imported role attaches the policy, putting
\* it among the attached policies of the role and the role among the roles
\* of the policy, when the account of the role and the account of the
\* policy compare as SAME, BOTH_UNRESOLVED or ONE_UNRESOLVED, and only
\* then: when both accounts are resolved and different the call changes
\* nothing.  It returns without an error in both cases.
C23_ImportAttachesBySameAccount ==
    [][ (roleLast'.op = "attachInlinePolicy" /\ heap[roleLast'.role].kind = "Import") =>
          LET role       == roleLast'.role
              policy     == roleLast'.policy
              comparison == compareStrings(heap[role].account, heap[policy].account)
          IN  /\ roleLast'.outcome = "return" /\ roleLast'.error = ""
              /\ comparison \in { "SAME", "BOTH_UNRESOLVED", "ONE_UNRESOLVED" } =>
                    /\ policy \in Refs(heap'[role].attachedPolicies)
                    /\ role \in Refs(heap'[policy].roles)
                    /\ \A i \in DOMAIN heap \ { role, policy } : heap'[i] = heap[i]
                    /\ Len(heap') = Len(heap)
              /\ comparison = "DIFFERENT" =>
                    /\ heap[role].account # heap[policy].account
                    /\ ~isUnresolved(heap[role].account)
                    /\ ~isUnresolved(heap[policy].account)
                    /\ heap' = heap
      ]_vars

\* A role of the account "111", imported into a stack of that account, was
\* handed a policy of a stack of the account "222": nothing is attached.
C23_Witness ==
    /\ roleLast.op = "attachInlinePolicy"
    /\ heap[roleLast.role].kind = "Import"
    /\ heap[roleLast.role].account = "111"
    /\ heap[roleLast.policy].account = "222"
    /\ heap[roleLast.role].attachedPolicies = <<>>
    /\ heap[roleLast.policy].roles = <<>>

=============================================================================
